---- MODULE Spec2Model ----
(***************************************************************************)
(* Model of autodist/strategy/auto/strategy_sampler.py:                    *)
(* RandomStrategySampler.build and the stages it calls, and the            *)
(* VariableHelper / PartHelper metadata views.                             *)
(*                                                                         *)
(* Python values are modelled by what the interpreter does with them:      *)
(*   - a value that may be a bool or a list carries a tag, and Truthy      *)
(*     is Python's truth test (a non-empty list is true);                  *)
(*   - an attribute read goes through the class's attribute table and      *)
(*     raises AttributeError for a name the class does not define;         *)
(*   - an exception is an outcome with a non-empty exc field, and          *)
(*     propagates out of build without running _reset;                     *)
(*   - a random primitive is the set of values it can return.              *)
(***************************************************************************)
EXTENDS Integers, Sequences, FiniteSets, TLC

VARIABLES
    space,          \* self.space
    heuristics,     \* self.heuristics
    helpers,        \* self.helpers: record name -> metadata view
    threads,        \* the threads that call build on the sampler
    call,           \* per thread: the frame of its build call
    ncalls,         \* build calls made on the sampler so far
    part,           \* a partitioned variable and the PartHelper views made of it so far
    stage           \* one call of a sampling stage: its arguments and what it returned

vars == <<space, heuristics, helpers, threads, call, ncalls, part, stage>>

-----------------------------------------------------------------------------
(* Bounds of the model *)

MaxVars == 2        \* trainable variables of a graph_item
MaxCalls == 2       \* build calls made on one sampler
MaxThreads == 2     \* threads calling build concurrently
MaxExtent == 4      \* extent of an axis of a partitioned variable

(* Program constants *)

MAX_INT32 == 2147483647

-----------------------------------------------------------------------------
(* Small helpers *)

Max(a, b) == IF a >= b THEN a ELSE b
Min(a, b) == IF a <= b THEN a ELSE b

RECURSIVE SumSeq(_)
SumSeq(s) == IF s = <<>> THEN 0 ELSE Head(s) + SumSeq(Tail(s))

SeqToSet(s) == {s[k] : k \in 1..Len(s)}

\* range(a, b + 1) as a list
RangeSeq(a, b) == [k \in 1..Max(0, b - a + 1) |-> a + k - 1]

-----------------------------------------------------------------------------
(* sample_util: the random primitives, each the set of values it can return. *)
(* uniform_sample_by_choices raises on an empty collection.                  *)

UniformChoice(choices) == SeqToSet(choices)

\* binary_sample(boundary = num / den)
BinarySample(num, den) ==
    IF num <= 0 THEN {FALSE} ELSE IF num >= den THEN {TRUE} ELSE BOOLEAN

\* sample_merge_group(num_group, num_candidates): each item independently in a group
SampleMergeGroup(num_group, num_candidates) ==
    [1..num_candidates -> 0..(num_group - 1)]

-----------------------------------------------------------------------------
(* Inputs: trainable variables, graph items, resource specs *)

Variables ==
    { [op |-> "emb", grad |-> "IndexedSlices", consumers |-> {"ResourceGather"},
       shape |-> <<4, 2>>, bytes |-> 32],
      [op |-> "w", grad |-> "Tensor", consumers |-> {"MatMul"},
       shape |-> <<3, 2>>, bytes |-> 24],
      [op |-> "b", grad |-> "Tensor", consumers |-> {"BiasAdd"},
       shape |-> <<>>, bytes |-> 4] }

NoVar == [op |-> "", grad |-> "Tensor", consumers |-> {}, shape |-> <<>>, bytes |-> 0]

\* graph_item.trainable_var_op_to_var.values(): distinct variables, in order
GraphItems ==
    { g \in UNION { [1..n -> Variables] : n \in 0..MaxVars } :
        \A a, b \in 1..Len(g) : a # b => g[a].op # g[b].op }

\* resource_spec: cpu_devices (aggregation devices) and gpu_devices (replicas)
CpuDevices(rs) == [k \in 1..rs.num_cpus |-> "cpu" \o ToString(k)]

ResourceSpecs == [num_cpus : {1, 2}, num_gpus : {2}]

VarName(var) == var.op \o ":0"                            \* var.name
PartName(var, k) == var.op \o "/part_" \o ToString(k) \o ":0"

-----------------------------------------------------------------------------
(* VariableHelper *)

\* the attributes a VariableHelper instance has (__init__ and the properties)
VariableHelperAttrs ==
    { "var", "graph_item", "_var_op_name", "_grad", "var_type", "is_sparse",
      "is_embedding", "shape", "partitionable_axes", "byte_size", "dtype" }

VarType(var) == IF var.grad = "Tensor" THEN "DENSE" ELSE "SPARSE"

IsSparse(var) == VarType(var) = "SPARSE"

IsEmbedding(var) == "ResourceGather" \in var.consumers

\* shape: None (here <<>>) when ndims is 0
VarShape(var) == var.shape

\* axes are 0-based as in the source
PartitionableAxes(var) ==
    IF VarShape(var) = <<>> THEN {}
    ELSE IF IsSparse(var) \/ IsEmbedding(var) THEN {0}
    ELSE { k - 1 : k \in { j \in 1..Len(var.shape) : var.shape[j] > 1 } }

VarByteSize(var) == var.bytes

\* getattr(var_helper, name): a read of an attribute the class lacks raises
GetAttrRaises(name) == name \notin VariableHelperAttrs

-----------------------------------------------------------------------------
(* PartHelper(part_idx, var, pc), pc a PartitionerConfig with one axis split  *)
(* into num_shards                                                            *)

DoubleMantissaBits == 53    \* Python float is an IEEE 754 binary64

\* as PartHelper.shape, with the extra element given to one shard too many
PartShapeOffByOne(shape, axis, num_shards, part_idx) ==
    LET extent == shape[axis + 1]
        dim_size == extent \div num_shards
        extras == extent % num_shards
    IN  [shape EXCEPT ![axis + 1] =
            IF part_idx <= extras THEN dim_size + 1 ELSE dim_size]

\* PartHelper.shape
PartShape(shape, axis, num_shards, part_idx) ==
    LET extent == shape[axis + 1]
        dim_size == extent \div num_shards
        extras == extent % num_shards
    IN  [shape EXCEPT ![axis + 1] =
            IF part_idx < extras THEN dim_size + 1 ELSE dim_size]

\* PartHelper.var_shape
PartVarShape(shape) == shape

\* floor(log2(p / e)) for p, e > 0: the k with 2^k <= p / e < 2^(k+1)
RECURSIVE Log2Up(_, _, _)
Log2Up(p, e, k) == IF p < 2 * e THEN k ELSE Log2Up(p, 2 * e, k + 1)
RECURSIVE Log2Down(_, _, _)
Log2Down(p, e, k) == IF p >= e THEN k ELSE Log2Down(2 * p, e, k - 1)
FloorLog2(p, e) == IF p >= e THEN Log2Up(p, e, 0) ELSE Log2Down(p, e, 0)

\* (x * 2^s) mod e
RECURSIVE ShiftMod(_, _, _)
ShiftMod(x, s, e) == IF s = 0 THEN x % e ELSE ShiftMod((2 * x) % e, s - 1, e)

(* The binary64 quotient p / e of two small positive integers, rounded to     *)
(* nearest, ties to even.  With s = 52 - floor(log2(p / e)) the quotient is   *)
(* M / 2^s for a 53-bit integer M, and the value returned is                  *)
(*     (p * 2^s + err) / (e * 2^s):                                           *)
(* err = M * e - p * 2^s is the rounding error in units of 1 / (e * 2^s).     *)
FloatDiv(p, e) ==
    IF p = 0 THEN [num |-> 0, den |-> e, err |-> 0, shift |-> 0]
    ELSE
    LET s == (DoubleMantissaBits - 1) - FloorLog2(p, e)
        r1 == ShiftMod(p, s - 1, e)            \* (p * 2^(s-1)) mod e
        odd == 2 * r1 >= e                     \* floor(p * 2^s / e) is odd
        r == IF odd THEN 2 * r1 - e ELSE 2 * r1    \* (p * 2^s) mod e
        up == 2 * r > e \/ (2 * r = e /\ odd)
    IN  [num |-> p, den |-> e, err |-> IF up THEN e - r ELSE 0 - r, shift |-> s]

\* PartHelper.byte_size: float(bytes) * float(shape[axis]) / float(var_shape[axis]);
\* the product of two small integers is exact
PartByteSize(bytes, shape, axis, num_shards, part_idx) ==
    FloatDiv(bytes * PartShape(shape, axis, num_shards, part_idx)[axis + 1],
             PartVarShape(shape)[axis + 1])

-----------------------------------------------------------------------------
(* The strategy document's records *)

\* a Strategy.Node's own synchronizer oneof, none set
NoSync(name) ==
    [var_name |-> name, synchronizer_type |-> "", synchronizer |-> "",
     sync |-> FALSE, staleness |-> 0, local_replication |-> FALSE,
     reduction_destination |-> "", compressor |-> "", group |-> 0]

PSLeaf(name, drawn, lr) ==
    [NoSync(name) EXCEPT !.synchronizer_type = drawn,
                         !.synchronizer = "PSSynchronizer",
                         !.sync = TRUE, !.staleness = 0,
                         !.local_replication = lr]

ARLeaf(name, drawn, comp) ==
    [NoSync(name) EXCEPT !.synchronizer_type = drawn,
                         !.synchronizer = "AllReduceSynchronizer",
                         !.compressor = comp]

\* the names of synchronizers_pb2.AllReduceSynchronizer.Compressor
CompressorNames ==
    {"NoneCompressor", "HorovodCompressor", "HorovodCompressorEF", "PowerSGDCompressor"}

-----------------------------------------------------------------------------
(* sample_if_partition *)

Dec(b, rand) == [exc |-> "", tag |-> "bool", b |-> b, items |-> <<>>, rand |-> rand]
DecList(items) == [exc |-> "", tag |-> "list", b |-> FALSE, items |-> items, rand |-> FALSE]
DecRaise(e) == [exc |-> e, tag |-> "bool", b |-> FALSE, items |-> <<>>, rand |-> FALSE]

\* Python's truth test of the value sample_if_partition returned
Truthy(d) == IF d.tag = "list" THEN Len(d.items) > 0 ELSE d.b

\* the variable's partitionable axes that the global restriction allows
LegalAxes(var, sp) ==
    IF sp.partitionable_axis # <<>>
    THEN PartitionableAxes(var) \cap SeqToSet(sp.partitionable_axis)
    ELSE PartitionableAxes(var)

SampleIfPartition(var, rs, sp, hr) ==
    LET reduction_device_names == CpuDevices(rs)
        lb == hr.maybe_partition_bounds[1]
        ub == hr.maybe_partition_bounds[2]
    IN  IF Len(sp.maybe_partition) = 1
            THEN {DecList(sp.maybe_partition)}       \* returns the list itself
        ELSE IF hr.enable_single_node_no_partition /\ Len(reduction_device_names) <= 1
            THEN {Dec(FALSE, FALSE)}
        ELSE IF GetAttrRaises("partitionable_axis")
            THEN {DecRaise("AttributeError")}
        ELSE IF PartitionableAxes(var) = {}
            THEN {Dec(FALSE, FALSE)}
        ELSE IF LegalAxes(var, sp) = {}
            THEN {Dec(FALSE, FALSE)}
        ELSE IF VarByteSize(var) <= lb
            THEN {Dec(FALSE, FALSE)}
        ELSE IF VarByteSize(var) >= ub
            THEN {Dec(TRUE, FALSE)}
        ELSE IF Len(sp.maybe_partition) # 2
            THEN {DecRaise("AssertionError")}
        ELSE IF hr.maybe_partition_by_size
            THEN {Dec(b, TRUE) : b \in BinarySample(VarByteSize(var) - lb, ub - lb)}
        ELSE {Dec(b, TRUE) : b \in UniformChoice(sp.maybe_partition)}

-----------------------------------------------------------------------------
(* sample_if_local_replication, sample_ar_compressor *)

\* as sample_if_local_replication, forcing False only below the cpu count
SampleIfLocalReplicationStrict(local_replication_space, rs) ==
    IF rs.num_gpus < rs.num_cpus THEN {FALSE}
    ELSE UniformChoice(local_replication_space)

SampleIfLocalReplication(local_replication_space, rs) ==
    IF rs.num_gpus <= rs.num_cpus THEN {FALSE}
    ELSE UniformChoice(local_replication_space)

SampleArCompressor(compressor_space) == UniformChoice(compressor_space)

-----------------------------------------------------------------------------
(* sample_var_synchronizer, sample_parts_synchronizers *)

LeafRaise(name, e) == [exc |-> e, leaf |-> NoSync(name)]
LeafOk(l) == [exc |-> "", leaf |-> l]

\* the body shared by both: fill the record for a synchronizer type already drawn
FillSynchronizer(name, synchronizer_type, rs, sp) ==
    IF synchronizer_type = "PS"
    THEN IF rs.num_gpus > rs.num_cpus /\ sp.local_replication = <<>>
         THEN {LeafRaise(name, "ConfigurationError")}
         ELSE { LeafOk(PSLeaf(name, synchronizer_type, lr)) :
                  lr \in SampleIfLocalReplication(sp.local_replication, rs) }
    ELSE IF sp.compressor = <<>>
         THEN {LeafRaise(name, "ConfigurationError")}
         ELSE { IF c \in CompressorNames
                THEN LeafOk(ARLeaf(name, synchronizer_type, c))
                ELSE LeafRaise(name, "ValueError") :
                  c \in SampleArCompressor(sp.compressor) }

\* as sample_var_synchronizer, without its rule for sparse variables
SampleVarSynchronizerAnyKind(name, var, rs, sp) ==
    IF sp.synchronizer_types = <<>>
    THEN {LeafRaise(name, "ConfigurationError")}
    ELSE UNION { FillSynchronizer(name, ty, rs, sp) :
                    ty \in UniformChoice(sp.synchronizer_types) }

SampleVarSynchronizer(name, var, rs, sp) ==
    IF VarType(var) = "SPARSE"
    THEN FillSynchronizer(name, "PS", rs, sp)
    ELSE IF sp.synchronizer_types = <<>>
    THEN {LeafRaise(name, "ConfigurationError")}
    ELSE UNION { FillSynchronizer(name, ty, rs, sp) :
                    ty \in UniformChoice(sp.synchronizer_types) }

\* the lists synchronizer_types can be for n parts
PartsSynchronizerTypes(n, var, sp, hr) ==
    IF VarType(var) = "SPARSE" THEN { [k \in 1..n |-> "PS"] }
    ELSE IF hr.same_synchronizer_for_parts
    THEN { [k \in 1..n |-> ty] : ty \in UniformChoice(sp.synchronizer_types) }
    ELSE [1..n -> UniformChoice(sp.synchronizer_types)]

\* the outcomes of filling parts k..n in order; the first exception ends the loop
RECURSIVE FillParts(_, _, _, _, _)
FillParts(names, types, k, rs, sp) ==
    IF k > Len(names) THEN { [exc |-> "", parts |-> <<>>] }
    ELSE UNION {
        IF o.exc # "" THEN { [exc |-> o.exc, parts |-> <<>>] }
        ELSE { [exc |-> rest.exc,
                parts |-> IF rest.exc # "" THEN <<>> ELSE <<o.leaf>> \o rest.parts] :
                 rest \in FillParts(names, types, k + 1, rs, sp) } :
        o \in FillSynchronizer(names[k], types[k], rs, sp) }

SamplePartsSynchronizers(names, var, rs, sp, hr) ==
    IF VarType(var) # "SPARSE" /\ sp.synchronizer_types = <<>> /\
       (hr.same_synchronizer_for_parts \/ Len(names) > 0)
    THEN { [exc |-> "ConfigurationError", parts |-> <<>>] }
    ELSE UNION { FillParts(names, types, 1, rs, sp) :
                    types \in PartsSynchronizerTypes(Len(names), var, sp, hr) }

-----------------------------------------------------------------------------
(* sample_partition_config *)

\* an entry of heuristics['num_partition_bounds']: an int, or a string
IntBound(n) == [isint |-> TRUE, n |-> n, s |-> ""]
StrBound(s) == [isint |-> FALSE, n |-> 0, s |-> s]

PcRaise(e) == [exc |-> e, axis |-> 0, num_shards |-> 0, partition_list |-> <<>>]

\* PartitionerConfig(partition_list): 1 on every axis but the chosen one
PartitionerConfig(var, axis, num_shards) ==
    [exc |-> "", axis |-> axis, num_shards |-> num_shards,
     partition_list |-> [k \in 1..Len(VarShape(var)) |->
                            IF k = axis + 1 THEN num_shards ELSE 1]]

\* the shard counts drawn for one axis, after the bounds are resolved
SampleNumShards(var, axis, rs, hr) ==
    LET num_nodes == rs.num_cpus
        dim_size == VarShape(var)[axis + 1]
        b0 == hr.num_partition_bounds[1]
        b1 == hr.num_partition_bounds[2]
        max_shards == IF b1.s = "num_nodes" /\ ~b1.isint
                      THEN Min(dim_size, num_nodes)
                      ELSE Min(dim_size, b1.n)
        min_shards == Max(2, b0.n)
    IN  IF ~b1.isint /\ b1.s # "num_nodes" THEN {PcRaise("ValueError")}
        ELSE IF ~b0.isint /\ b0.s = "num_nodes"
            THEN {PcRaise("TypeError")}       \* max(2, 'num_nodes')
        ELSE IF ~b0.isint THEN {PcRaise("ValueError")}
        ELSE IF min_shards > max_shards THEN {PcRaise("ConfigurationError")}
        ELSE { PartitionerConfig(var, axis, n) : n \in min_shards..max_shards }

SamplePartitionConfig(var, rs, sp, hr) ==
    IF GetAttrRaises("partitionable_axis") THEN {PcRaise("AttributeError")}
    ELSE IF PartitionableAxes(var) = {} THEN {PcRaise("AssertionError")}
    ELSE IF LegalAxes(var, sp) = {} THEN {PcRaise("ConfigurationError")}
    ELSE UNION { SampleNumShards(var, axis, rs, hr) : axis \in LegalAxes(var, sp) }

-----------------------------------------------------------------------------
(* The body of build's loop for one variable (lines 217-244) *)

\* a Strategy.Node
Node(name, partitioner, own, parts) ==
    [var_name |-> name, partitioner |-> partitioner, own |-> own, part_config |-> parts]

NoNode == Node("", <<>>, NoSync(""), <<>>)

\* the metadata views kept in self.helpers; owner is the thread that made the view
VarView(t, var) ==
    [owner |-> t, cls |-> "VariableHelper", var |-> var,
     part_idx |-> 0, axis |-> 0, num_shards |-> 1]
PartView(t, var, k, pc) ==
    [owner |-> t, cls |-> "PartHelper", var |-> var,
     part_idx |-> k, axis |-> pc.axis, num_shards |-> pc.num_shards]

VarResult(e, d, hasnode, node, reg) ==
    [exc |-> e, decision |-> d, has_node |-> hasnode, node |-> node, reg |-> reg]

\* the sharded branch, for a partitioner config already sampled
BuildParts(t, var, d, pc, rs, sp, hr) ==
    LET names == [k \in 1..pc.num_shards |-> PartName(var, k - 1)]
        reg == <<[name |-> VarName(var), view |-> VarView(t, var)]>> \o
               [k \in 1..pc.num_shards |->
                    [name |-> names[k], view |-> PartView(t, var, k - 1, pc)]]
    IN  { IF o.exc # "" THEN VarResult(o.exc, d, FALSE, NoNode, reg)
          ELSE VarResult("", d, TRUE,
                         Node(VarName(var), pc.partition_list,
                              NoSync(VarName(var)), o.parts), reg) :
            o \in SamplePartsSynchronizers(names, var, rs, sp, hr) }

BuildVar(t, var, rs, sp, hr) ==
    LET reg0 == <<[name |-> VarName(var), view |-> VarView(t, var)]>>
    IN  UNION {
          IF d.exc # "" THEN { VarResult(d.exc, d, FALSE, NoNode, reg0) }
          ELSE IF ~Truthy(d)
          THEN { IF o.exc # "" THEN VarResult(o.exc, d, FALSE, NoNode, reg0)
                 ELSE VarResult("", d, TRUE,
                                Node(VarName(var), <<>>, o.leaf, <<>>), reg0) :
                   o \in SampleVarSynchronizer(VarName(var), var, rs, sp) }
          ELSE UNION {
                 IF pc.exc # "" THEN { VarResult(pc.exc, d, FALSE, NoNode, reg0) }
                 ELSE BuildParts(t, var, d, pc, rs, sp, hr) :
                   pc \in SamplePartitionConfig(var, rs, sp, hr) } :
          d \in SampleIfPartition(var, rs, sp, hr) }

\* self.helpers[name] = view, for each registration in order
RECURSIVE Register(_, _)
Register(h, reg) ==
    IF reg = <<>> THEN h
    ELSE Register((Head(reg).name :> Head(reg).view) @@ h, Tail(reg))

-----------------------------------------------------------------------------
(* sample_group_and_reduction_destinations and what it calls *)

PyNone == "None"    \* Python's None where a heuristic holds None or a name

\* the leaf records of a node: its parts when it has a partitioner, else itself
NodeLeaves(node) ==
    IF node.partitioner # <<>> THEN node.part_config ELSE <<node.own>>

RECURSIVE Leaves(_)
Leaves(node_config) ==
    IF node_config = <<>> THEN <<>>
    ELSE NodeLeaves(Head(node_config)) \o Leaves(Tail(node_config))

\* hasattr(synchronizer, 'compressor') / hasattr(synchronizer, 'reduction_destination')
HasCompressor(leaf) == leaf.synchronizer = "AllReduceSynchronizer"
HasReductionDestination(leaf) == leaf.synchronizer = "PSSynchronizer"

\* the entries (name, idx) of ar_shards (ar) or ps_shards (~ar), in insertion order
RECURSIVE ShardsFrom(_, _, _)
ShardsFrom(leaves, k, ar) ==
    IF k > Len(leaves) THEN <<>>
    ELSE (IF HasCompressor(leaves[k]) = ar
          THEN <<[name |-> leaves[k].var_name, idx |-> k - 1]>>
          ELSE <<>>) \o ShardsFrom(leaves, k + 1, ar)

PsShards(node_config) == ShardsFrom(Leaves(node_config), 1, FALSE)
ArShards(node_config) == ShardsFrom(Leaves(node_config), 1, TRUE)

\* every name of shards is a key of the mapping h
AllKnown(shards, h) == \A k \in 1..Len(shards) : shards[k].name \in DOMAIN h

(* byte sizes as exact fractions, for the load balancers' comparisons *)
Frac(n, d) == [n |-> n, d |-> d]
FracLess(a, b) == a.n * b.d < b.n * a.d
FracAdd(a, b) == Frac(a.n * b.d + b.n * a.d, a.d * b.d)

ViewByteSize(v) ==
    IF v.cls = "VariableHelper" THEN Frac(VarByteSize(v.var), 1)
    ELSE LET q == PartByteSize(v.var.bytes, v.var.shape, v.axis, v.num_shards, v.part_idx)
         IN  Frac(q.num, q.den)

\* sorted(shards, key = byte size, reverse = True): stable
RECURSIVE InsertBySize(_, _, _)
InsertBySize(sorted, x, h) ==
    IF sorted = <<>> THEN <<x>>
    ELSE IF FracLess(ViewByteSize(h[Head(sorted).name]), ViewByteSize(h[x.name]))
         THEN <<x>> \o sorted
         ELSE <<Head(sorted)>> \o InsertBySize(Tail(sorted), x, h)

RECURSIVE SortBySize(_, _, _)
SortBySize(shards, k, h) ==
    IF k = 0 THEN <<>>
    ELSE InsertBySize(SortBySize(shards, k - 1, h), shards[k], h)

\* the first device, in list order, that holds the least load
LeastLoaded(loads) ==
    CHOOSE j \in 1..Len(loads) :
        /\ \A m \in 1..Len(loads) : ~FracLess(loads[m], loads[j])
        /\ \A m \in 1..(j - 1) : FracLess(loads[j], loads[m])

\* greedy_load_balancer: name -> device index, one shard after the other
RECURSIVE GreedyAssign(_, _, _)
GreedyAssign(order, loads, h) ==
    IF order = <<>> THEN <<>>
    ELSE LET j == LeastLoaded(loads)
             x == Head(order)
         IN  <<[name |-> x.name, dev |-> j]>> \o
             GreedyAssign(Tail(order),
                          [loads EXCEPT ![j] = FracAdd(@, ViewByteSize(h[x.name]))], h)

DestOf(assign, name) == (CHOOSE a \in SeqToSet(assign) : a.name = name).dev

PsRaise(e) == [exc |-> e, ps_shards |-> <<>>]
PsEntry(shard, dest) == [name |-> shard.name, idx |-> shard.idx, dest |-> dest]

GreedyLoadBalancer(ps_shards, rs, h, sort_by_size) ==
    LET devices == CpuDevices(rs)
        order == IF sort_by_size THEN SortBySize(ps_shards, Len(ps_shards), h)
                 ELSE ps_shards
        assign == GreedyAssign(order, [k \in 1..Len(devices) |-> Frac(0, 1)], h)
    IN  IF ~AllKnown(ps_shards, h) THEN {PsRaise("KeyError")}
        ELSE IF devices = <<>> THEN {PsRaise("IndexError")}
        ELSE { [exc |-> "",
                ps_shards |-> [k \in 1..Len(ps_shards) |->
                    PsEntry(ps_shards[k], devices[DestOf(assign, ps_shards[k].name)])]] }

\* christy_load_balancer: its order of preference is its own; every shard gets one
\* of the devices
ChristyLoadBalancer(ps_shards, rs, h, sort_by_size) ==
    LET devices == CpuDevices(rs)
    IN  IF ~AllKnown(ps_shards, h) THEN {PsRaise("KeyError")}
        ELSE IF devices = <<>> THEN {PsRaise("IndexError")}
        ELSE { [exc |-> "",
                ps_shards |-> [k \in 1..Len(ps_shards) |->
                                  PsEntry(ps_shards[k], devices[f[k]])]] :
                 f \in [1..Len(ps_shards) -> 1..Len(devices)] }

\* the destinations sample_ps_reduction_destinations can compute (lines 506-525)
SamplePsReductionDestinations(ps_shards, rs, h, hr) ==
    LET load_balancer == hr.ps_load_balancer
        reduction_device_names == CpuDevices(rs)
    IN  IF load_balancer = PyNone \/ load_balancer = ""
        THEN IF reduction_device_names = <<>> THEN {PsRaise("ConfigurationError")}
             ELSE { [exc |-> "",
                     ps_shards |-> [k \in 1..Len(ps_shards) |->
                                       PsEntry(ps_shards[k], f[k])]] :
                      f \in [1..Len(ps_shards) -> UniformChoice(reduction_device_names)] }
        ELSE IF load_balancer = "greedy" THEN GreedyLoadBalancer(ps_shards, rs, h, FALSE)
        ELSE IF load_balancer = "christy" THEN ChristyLoadBalancer(ps_shards, rs, h, FALSE)
        ELSE IF load_balancer = "sorted_christy"
            THEN ChristyLoadBalancer(ps_shards, rs, h, TRUE)
        ELSE IF load_balancer = "sorted_greedy"
            THEN GreedyLoadBalancer(ps_shards, rs, h, TRUE)
        ELSE {PsRaise("ValueError")}

EntryOf(shards, name) == CHOOSE e \in SeqToSet(shards) : e.name = name

\* assign_ps_reduction_destinations
PsAssignLeaf(leaf, ps_shards) ==
    IF HasReductionDestination(leaf)
    THEN [leaf EXCEPT !.reduction_destination = EntryOf(ps_shards, leaf.var_name).dest]
    ELSE leaf

\* as assign_ps_reduction_destinations, without its branch for unpartitioned nodes
AssignPsToPartsOnly(node_config, ps_shards) ==
    [k \in 1..Len(node_config) |->
        LET node == node_config[k]
        IN  IF node.partitioner # <<>>
            THEN [node EXCEPT !.part_config =
                    [j \in 1..Len(node.part_config) |->
                        PsAssignLeaf(node.part_config[j], ps_shards)]]
            ELSE node]

AssignPsReductionDestinations(node_config, ps_shards) ==
    [k \in 1..Len(node_config) |->
        LET node == node_config[k]
        IN  IF node.partitioner # <<>>
            THEN [node EXCEPT !.part_config =
                    [j \in 1..Len(node.part_config) |->
                        PsAssignLeaf(node.part_config[j], ps_shards)]]
            ELSE [node EXCEPT !.own = PsAssignLeaf(node.own, ps_shards)]]

-----------------------------------------------------------------------------
(* sample_ar_groups and what it calls *)

ArRaise(e) == [exc |-> e, num_group |-> 0, ar_shards |-> <<>>]
ArEntry(shard, g) == [name |-> shard.name, idx |-> shard.idx, group |-> g]
ArOk(ar_shards, r, f) ==
    [exc |-> "", num_group |-> r,
     ar_shards |-> [k \in 1..Len(ar_shards) |-> ArEntry(ar_shards[k], f[k])]]

\* sample_num_ar_groups: the group counts it can draw
SampleNumArGroups(ar_shards, lb, ub) ==
    LET min_num_group == Max(1, lb)
        max_num_group == Min(Len(ar_shards), ub)
    IN  UniformChoice(RangeSeq(min_num_group, max_num_group))

\* sample_chunk_size
SampleChunkSize(num_ar_shards) == UniformChoice(RangeSeq(1, num_ar_shards))

\* chunk_group_assigner: consecutive runs of chunk_size shards, in order
ChunkGroupAssigner(ar_shards, chunk_size) ==
    [k \in 1..Len(ar_shards) |-> (k - 1) \div chunk_size]

\* christy_group_assigner, ordered_balanced_group_assigner: balance by byte size in
\* their own way; every shard gets one of the num_group ids
BalancedGroupAssigner(ar_shards, h, num_group) ==
    [1..Len(ar_shards) -> 0..(num_group - 1)]

\* the first step of sample_ar_groups: chunk_size_or_num_group (lines 566-575)
ResolveNumGroup(ar_shards, hr) ==
    IF hr.merge_scheme = "by_chunk"
    THEN IF hr.chunk_size > 0 THEN {hr.chunk_size}
         ELSE SampleChunkSize(Len(ar_shards))
    ELSE SampleNumArGroups(ar_shards, hr.num_group_bounds[1], hr.num_group_bounds[2])

\* as the assignments of sample_ar_groups, with the arguments of sample_merge_group
\* swapped
GroupAssignmentsSwapped(ar_shards, r, h, hr) ==
    LET merge_scheme == hr.merge_scheme
    IN  IF ~(r > 0) THEN {ArRaise("AssertionError")}
        ELSE IF merge_scheme \in {"random", PyNone}
            THEN { ArOk(ar_shards, r, f) :
                     f \in [1..Len(ar_shards) -> 0..(Len(ar_shards) - 1)] }
        ELSE IF merge_scheme = "by_chunk"
            THEN { ArOk(ar_shards, r, ChunkGroupAssigner(ar_shards, r)) }
        ELSE IF merge_scheme \in {"christy", "ordered_balanced"}
            THEN IF ~AllKnown(ar_shards, h) THEN {ArRaise("KeyError")}
                 ELSE { ArOk(ar_shards, r, f) :
                          f \in BalancedGroupAssigner(ar_shards, h, r) }
        ELSE {ArRaise("ValueError")}

\* the assignments for a resolved chunk_size_or_num_group r (lines 576-598)
GroupAssignments(ar_shards, r, h, hr) ==
    LET merge_scheme == hr.merge_scheme
    IN  IF ~(r > 0) THEN {ArRaise("AssertionError")}
        ELSE IF merge_scheme \in {"random", PyNone}
            THEN { ArOk(ar_shards, r, f) : f \in SampleMergeGroup(r, Len(ar_shards)) }
        ELSE IF merge_scheme = "by_chunk"
            THEN { ArOk(ar_shards, r, ChunkGroupAssigner(ar_shards, r)) }
        ELSE IF merge_scheme \in {"christy", "ordered_balanced"}
            THEN IF ~AllKnown(ar_shards, h) THEN {ArRaise("KeyError")}
                 ELSE { ArOk(ar_shards, r, f) :
                          f \in BalancedGroupAssigner(ar_shards, h, r) }
        ELSE {ArRaise("ValueError")}

SampleArGroups(ar_shards, h, hr) ==
    IF ResolveNumGroup(ar_shards, hr) = {}
    THEN {ArRaise("ConfigurationError")}      \* a draw from an empty range
    ELSE UNION { GroupAssignments(ar_shards, r, h, hr) :
                    r \in ResolveNumGroup(ar_shards, hr) }

\* assign_ar_group
ArAssignLeaf(leaf, ar_shards) ==
    IF HasCompressor(leaf)
    THEN [leaf EXCEPT !.group = EntryOf(ar_shards, leaf.var_name).group]
    ELSE leaf

AssignArGroup(node_config, ar_shards) ==
    [k \in 1..Len(node_config) |->
        LET node == node_config[k]
        IN  IF node.partitioner # <<>>
            THEN [node EXCEPT !.part_config =
                    [j \in 1..Len(node.part_config) |->
                        ArAssignLeaf(node.part_config[j], ar_shards)]]
            ELSE [node EXCEPT !.own = ArAssignLeaf(node.own, ar_shards)]]

\* sample_group_and_reduction_destinations: placement, then grouping
PostResult(e, node_config, ps, ar, r) ==
    [exc |-> e, node_config |-> node_config, ps_shards |-> ps, ar_shards |-> ar,
     num_group |-> r]

GroupStage(node_config, ps, h, hr) ==
    LET ar_shards == ArShards(node_config)
    IN  IF Len(ar_shards) > 0
        THEN { IF a.exc # "" THEN PostResult(a.exc, node_config, ps, <<>>, 0)
               ELSE PostResult("", AssignArGroup(node_config, a.ar_shards), ps,
                               a.ar_shards, a.num_group) :
                 a \in SampleArGroups(ar_shards, h, hr) }
        ELSE { PostResult("", node_config, ps, <<>>, 0) }

SampleGroupAndReductionDestinations(node_config, rs, h, hr) ==
    LET ps_shards == PsShards(node_config)
    IN  IF Len(ps_shards) > 0
        THEN UNION {
               IF p.exc # "" THEN { PostResult(p.exc, node_config, <<>>, <<>>, 0) }
               ELSE GroupStage(AssignPsReductionDestinations(node_config, p.ps_shards),
                               p.ps_shards, h, hr) :
               p \in SamplePsReductionDestinations(ps_shards, rs, h, hr) }
        ELSE GroupStage(node_config, <<>>, h, hr)

-----------------------------------------------------------------------------
(* Configurations: default_space and default_heuristics, and the spaces and    *)
(* heuristics a sampler is constructed with                                    *)

default_space ==
    [synchronizer_types |-> <<"PS", "AR">>,
     maybe_partition |-> <<TRUE, FALSE>>,
     compressor |-> <<"HorovodCompressor", "NoneCompressor", "HorovodCompressorEF">>,
     local_replication |-> <<FALSE>>,
     partitionable_axis |-> <<>>]

\* maybe_partition_by_size is None by default; only its truth value is read
default_heuristics ==
    [ps_load_balancer |-> PyNone,
     merge_scheme |-> PyNone,
     chunk_size |-> -1,
     num_group_bounds |-> <<-1, MAX_INT32>>,
     maybe_partition_bounds |-> <<0, MAX_INT32>>,
     maybe_partition_by_size |-> FALSE,
     num_partition_bounds |-> <<IntBound(2), IntBound(MAX_INT32)>>,
     enable_single_node_no_partition |-> FALSE,
     same_synchronizer_for_parts |-> FALSE]

SynchronizerTypeLists == { <<"PS", "AR">>, <<"PS">>, <<"AR">>, <<"PS", "AR", "XX">> }
MaybePartitionLists == { <<TRUE, FALSE>>, <<TRUE>>, <<FALSE>> }
LoadBalancers == { PyNone, "greedy", "sorted_greedy", "christy", "sorted_christy", "lp" }
MergeSchemes == { PyNone, "random", "by_chunk", "christy", "ordered_balanced", "ring" }

Spaces ==
    { [default_space EXCEPT !.synchronizer_types = st, !.maybe_partition = mp,
                            !.compressor = <<"HorovodCompressor", "NoneCompressor">>] :
        st \in SynchronizerTypeLists, mp \in MaybePartitionLists }

\* the grouping heuristics: a chunk size matters to by_chunk only, group bounds to
\* the other schemes only
GroupingChoices ==
    { [merge_scheme |-> "by_chunk", chunk_size |-> c, num_group_bounds |-> <<-1, MAX_INT32>>] :
        c \in {-1, 2} }
    \cup
    { [merge_scheme |-> ms, chunk_size |-> -1, num_group_bounds |-> b] :
        ms \in MergeSchemes \ {"by_chunk"}, b \in { <<-1, MAX_INT32>>, <<2, 2>> } }

HeuristicsSet ==
    { [default_heuristics EXCEPT
          !.ps_load_balancer = lb,
          !.merge_scheme = g.merge_scheme,
          !.chunk_size = g.chunk_size,
          !.num_group_bounds = g.num_group_bounds,
          !.enable_single_node_no_partition = single,
          !.same_synchronizer_for_parts = same] :
        lb \in LoadBalancers, g \in GroupingChoices,
        single \in BOOLEAN, same \in BOOLEAN }

-----------------------------------------------------------------------------
(* build: one frame per calling thread *)

Threads == 1..MaxThreads

IdleFrame ==
    [pc |-> "idle", graph_item |-> <<>>,
     resource_spec |-> [num_cpus |-> 1, num_gpus |-> 1],
     node_config |-> <<>>, decisions |-> <<>>, exc |-> "",
     ps_shards |-> <<>>, ar_shards |-> <<>>, num_group |-> 0, lost |-> {}]

NoPart == [shape |-> <<>>, bytes |-> 0, axis |-> 0, num_shards |-> 0, done |-> <<>>]

NoStage == [var |-> NoVar, resource_spec |-> [num_cpus |-> 1, num_gpus |-> 1],
            ran |-> FALSE, decision |-> Dec(FALSE, FALSE), config |-> PcRaise("")]

\* the names of the leaf records of node_config whose view the mapping h lacks, or
\* holds from another thread
Lost(t, node_config, h) ==
    { n \in { l.var_name : l \in SeqToSet(Leaves(node_config)) } :
        n \notin DOMAIN h \/ h[n].owner # t }

\* lines 206-215: a thread enters build(graph_item, resource_spec)
Build(t) ==
    /\ t \in threads
    /\ call[t].pc \in {"idle", "returned", "raised"}
    /\ ncalls < MaxCalls
    /\ \E g \in GraphItems, rs \in ResourceSpecs :
          call' = [call EXCEPT ![t] =
                     [IdleFrame EXCEPT !.pc = IF g = <<>> THEN "post" ELSE "loop",
                                       !.graph_item = g, !.resource_spec = rs]]
    /\ ncalls' = ncalls + 1
    /\ UNCHANGED <<space, heuristics, helpers, threads, part, stage>>

\* lines 216-244: one iteration of the loop over the variables
ProcessVar(t) ==
    /\ call[t].pc = "loop"
    /\ LET f == call[t]
           k == Len(f.decisions) + 1
       IN  \E r \in BuildVar(t, f.graph_item[k], f.resource_spec, space, heuristics) :
             /\ helpers' = Register(helpers, r.reg)
             /\ call' = [call EXCEPT ![t] =
                  [f EXCEPT !.decisions = Append(@, r.decision),
                            !.node_config = IF r.has_node THEN Append(@, r.node) ELSE @,
                            !.exc = r.exc,
                            !.pc = IF r.exc # "" THEN "raised"
                                   ELSE IF k = Len(f.graph_item) THEN "post"
                                   ELSE "loop"]]
    /\ UNCHANGED <<space, heuristics, threads, ncalls, part, stage>>

\* line 247: the placement and grouping stage, on self.helpers as it is now
PostAssign(t) ==
    /\ call[t].pc = "post"
    /\ LET f == call[t]
       IN  \E r \in SampleGroupAndReductionDestinations(
                        f.node_config, f.resource_spec, helpers, heuristics) :
             call' = [call EXCEPT ![t] =
                  [f EXCEPT !.node_config = r.node_config,
                            !.ps_shards = r.ps_shards,
                            !.ar_shards = r.ar_shards,
                            !.num_group = r.num_group,
                            !.lost = Lost(t, f.node_config, helpers),
                            !.exc = r.exc,
                            !.pc = IF r.exc # "" THEN "raised" ELSE "reset"]]
    /\ UNCHANGED <<space, heuristics, helpers, threads, ncalls, part, stage>>

\* lines 249-255: _reset, and the document is returned
Return(t) ==
    /\ call[t].pc = "reset"
    /\ helpers' = <<>>
    /\ call' = [call EXCEPT ![t].pc = "returned"]
    /\ UNCHANGED <<space, heuristics, threads, ncalls, part, stage>>

\* __init__ (lines 198-204): space and heuristics as given, helpers empty
SamplerInit(spaces, heuristics_set) ==
    /\ spaces # {} /\ heuristics_set # {}
    /\ space \in spaces
    /\ heuristics \in heuristics_set
    /\ helpers = <<>>
    /\ call = [t \in Threads |-> IdleFrame]
    /\ ncalls = 0
    /\ part = NoPart
    /\ stage = NoStage

Init == SamplerInit(Spaces, HeuristicsSet) /\ threads = {1}

Next == \E t \in Threads : Build(t) \/ ProcessVar(t) \/ PostAssign(t) \/ Return(t)

Spec == Init /\ [][Next]_vars

-----------------------------------------------------------------------------
(* Two threads calling build on one sampler.  The configurations are those in  *)
(* which a call can get past its loop.                                         *)

ConcHeuristics ==
    { [default_heuristics EXCEPT !.ps_load_balancer = lb,
                                 !.enable_single_node_no_partition = TRUE] :
        lb \in { PyNone, "greedy" } }

ConcSpaces ==
    { sp \in Spaces : /\ sp.synchronizer_types = default_space.synchronizer_types
                      /\ sp.maybe_partition = default_space.maybe_partition }

InitConc == SamplerInit(ConcSpaces, ConcHeuristics) /\ threads = Threads

SpecConc == InitConc /\ [][Next]_vars

-----------------------------------------------------------------------------
(* PartHelper on its own: the views of the shards of one partitioned variable  *)

\* byte_size_load_fn(var): the number of elements times the width of an element
RECURSIVE NumElements(_)
NumElements(shape) == IF shape = <<>> THEN 1 ELSE Head(shape) * NumElements(Tail(shape))
ByteSizeLoadFn(shape, elem_size) == NumElements(shape) * elem_size

ElemSizes == {1, 2, 4, 8}     \* dtype.size

PartShapes == UNION { [1..n -> 1..MaxExtent] : n \in 1..2 }

\* a variable, and a PartitionerConfig whose num_shards is at most the extent of
\* its axis, as sample_partition_config draws it
PartInputs ==
    { [shape |-> sh, bytes |-> ByteSizeLoadFn(sh, w), axis |-> a, num_shards |-> n,
       done |-> <<>>] :
        sh \in PartShapes, w \in ElemSizes, a \in 0..1, n \in 1..MaxExtent }

InitPart ==
    /\ space = default_space
    /\ heuristics = default_heuristics
    /\ helpers = <<>>
    /\ threads = {}
    /\ call = [t \in Threads |-> IdleFrame]
    /\ ncalls = 0
    /\ stage = NoStage
    /\ part \in { x \in PartInputs :
                    x.axis < Len(x.shape) /\ x.num_shards <= x.shape[x.axis + 1] }

\* PartHelper(i, var, pc) for the next i of range(pc.num_shards), and its properties
MakePart ==
    /\ Len(part.done) < part.num_shards
    /\ LET i == Len(part.done)
       IN  part' = [part EXCEPT !.done = Append(@,
                [shape |-> PartShape(part.shape, part.axis, part.num_shards, i),
                 byte_size |-> PartByteSize(part.bytes, part.shape, part.axis,
                                            part.num_shards, i)])]
    /\ UNCHANGED <<space, heuristics, helpers, threads, call, ncalls, stage>>

NextPart == MakePart

SpecPart == InitPart /\ [][NextPart]_vars

-----------------------------------------------------------------------------
(* sample_if_partition on its own *)

DecideSpaces ==
    { [default_space EXCEPT !.maybe_partition = mp, !.partitionable_axis = ax] :
        mp \in MaybePartitionLists, ax \in { <<>>, <<0>>, <<1>> } }

DecideHeuristics ==
    { [default_heuristics EXCEPT !.maybe_partition_bounds = mb,
                                 !.maybe_partition_by_size = by_size,
                                 !.enable_single_node_no_partition = single] :
        mb \in { <<0, MAX_INT32>>, <<24, 32>>, <<4, 32>>, <<32, 24>> },
        by_size \in BOOLEAN, single \in BOOLEAN }

InitDecide ==
    /\ space \in DecideSpaces
    /\ heuristics \in DecideHeuristics
    /\ helpers = <<>>
    /\ threads = {}
    /\ call = [t \in Threads |-> IdleFrame]
    /\ ncalls = 0
    /\ part = NoPart
    /\ \E v \in Variables, rs \in ResourceSpecs :
          stage = [NoStage EXCEPT !.var = v, !.resource_spec = rs]

\* maybe_partition = sample_if_partition(var_helper, resource_spec, space, heuristics)
Decide ==
    /\ ~stage.ran
    /\ \E d \in SampleIfPartition(stage.var, stage.resource_spec, space, heuristics) :
          stage' = [stage EXCEPT !.ran = TRUE, !.decision = d]
    /\ UNCHANGED <<space, heuristics, helpers, threads, call, ncalls, part>>

NextDecide == Decide

SpecDecide == InitDecide /\ [][NextDecide]_vars

-----------------------------------------------------------------------------
(* build on clusters with as many gpus as cpus and with more, under every      *)
(* local_replication list                                                      *)

ReplResourceSpecs == [num_cpus : {1, 2}, num_gpus : {1, 2}]

LocalReplicationLists == { <<FALSE>>, <<TRUE>>, <<TRUE, FALSE>>, <<>> }

ReplSpaces ==
    { [default_space EXCEPT !.synchronizer_types = st, !.local_replication = lr,
                            !.compressor = <<"HorovodCompressor", "NoneCompressor">>] :
        st \in { <<"PS">>, <<"PS", "AR">> }, lr \in LocalReplicationLists }

ReplHeuristics ==
    { [default_heuristics EXCEPT !.enable_single_node_no_partition = single,
                                 !.same_synchronizer_for_parts = same] :
        single \in BOOLEAN, same \in BOOLEAN }

InitRepl == SamplerInit(ReplSpaces, ReplHeuristics) /\ threads = {1}

\* lines 206-215, with the resource_spec one of ReplResourceSpecs
BuildRepl(t) ==
    /\ t \in threads
    /\ call[t].pc \in {"idle", "returned", "raised"}
    /\ ncalls < MaxCalls
    /\ \E g \in GraphItems, rs \in ReplResourceSpecs :
          call' = [call EXCEPT ![t] =
                     [IdleFrame EXCEPT !.pc = IF g = <<>> THEN "post" ELSE "loop",
                                       !.graph_item = g, !.resource_spec = rs]]
    /\ ncalls' = ncalls + 1
    /\ UNCHANGED <<space, heuristics, helpers, threads, part, stage>>

NextRepl == \E t \in Threads : BuildRepl(t) \/ ProcessVar(t) \/ PostAssign(t) \/ Return(t)

SpecRepl == InitRepl /\ [][NextRepl]_vars

-----------------------------------------------------------------------------
(* sample_partition_config on its own *)

ConfigResourceSpecs == [num_cpus : {1, 2, 3}, num_gpus : {2}]

ConfigSpaces ==
    { [default_space EXCEPT !.partitionable_axis = ax] : ax \in { <<>>, <<0>>, <<1>> } }

\* num_partition_bounds: ints, or the string 'num_nodes' for either bound
NumPartitionBounds ==
    { <<IntBound(2), IntBound(MAX_INT32)>>, <<IntBound(1), IntBound(2)>>,
      <<IntBound(3), IntBound(4)>>, <<IntBound(2), StrBound("num_nodes")>>,
      <<StrBound("num_nodes"), IntBound(MAX_INT32)>> }

ConfigHeuristics ==
    { [default_heuristics EXCEPT !.num_partition_bounds = nb] : nb \in NumPartitionBounds }

InitConfig ==
    /\ space \in ConfigSpaces
    /\ heuristics \in ConfigHeuristics
    /\ helpers = <<>>
    /\ threads = {}
    /\ call = [t \in Threads |-> IdleFrame]
    /\ ncalls = 0
    /\ part = NoPart
    /\ \E v \in Variables, rs \in ConfigResourceSpecs :
          stage = [NoStage EXCEPT !.var = v, !.resource_spec = rs]

\* pc = sample_partition_config(var_helper, resource_spec, space, heuristics)
Configure ==
    /\ ~stage.ran
    /\ \E pc \in SamplePartitionConfig(stage.var, stage.resource_spec, space, heuristics) :
          stage' = [stage EXCEPT !.ran = TRUE, !.config = pc]
    /\ UNCHANGED <<space, heuristics, helpers, threads, call, ncalls, part>>

NextConfig == Configure

SpecConfig == InitConfig /\ [][NextConfig]_vars

-----------------------------------------------------------------------------
(* Properties *)

\* the document a call returned
Returned(t) == call[t].pc = "returned"
Document(t) == call[t].node_config

\* the leaf records of the node made for variable k of the call of thread t
LeavesOfVar(t, k) == SeqToSet(NodeLeaves(call[t].node_config[k]))

\* the shards sample_parts_synchronizers can make of a variable split in n
PartsOutcomes(var, n, rs) ==
    SamplePartsSynchronizers([k \in 1..n |-> PartName(var, k - 1)], var, rs,
                             space, heuristics)

\* C1: in every document build returns, every leaf record of a SPARSE variable (the
\* record of the unsharded variable, each shard of a sharded one) has the PS
\* synchronizer active, whatever space's synchronizer types and whatever
\* same_synchronizer_for_parts; and so has every record the two synchronizer stages
\* make for a SPARSE variable
C1_SparseIsAlwaysPS ==
    /\ \A t \in Threads : Returned(t) =>
         \A k \in 1..Len(Document(t)) :
            VarType(call[t].graph_item[k]) = "SPARSE" =>
               \A l \in LeavesOfVar(t, k) : l.synchronizer = "PSSynchronizer"
    /\ ncalls = 0 =>
         \A var \in { v \in Variables : VarType(v) = "SPARSE" }, rs \in ResourceSpecs :
            /\ \A o \in SampleVarSynchronizer(VarName(var), var, rs, space) :
                  o.exc = "" /\ o.leaf.synchronizer = "PSSynchronizer"
            /\ \A n \in 1..MaxExtent : \A o \in PartsOutcomes(var, n, rs) :
                  /\ o.exc = "" /\ Len(o.parts) = n
                  /\ \A k \in 1..n : o.parts[k].synchronizer = "PSSynchronizer"

\* C1 witness: a returned document holds the record of a SPARSE variable while space
\* offers only the decentralized kind
C1_Witness ==
    \E t \in Threads :
        /\ Returned(t)
        /\ space.synchronizer_types = <<"AR">>
        /\ heuristics.same_synchronizer_for_parts
        /\ \E k \in 1..Len(Document(t)) :
              /\ VarType(call[t].graph_item[k]) = "SPARSE"
              /\ \E l \in LeavesOfVar(t, k) : l.synchronizer = "PSSynchronizer"

\* C2: in a returned document every leaf record has exactly one synchronizer active;
\* a PS record's destination is the one the placement stage chose for it, a device
\* of the cluster's cpu_devices; an AllReduce record's group is the one the grouping
\* stage chose for it
C2_LeavesFullyAssigned ==
    \A t \in Threads : Returned(t) =>
        \A l \in SeqToSet(Leaves(Document(t))) :
            /\ l.synchronizer \in {"PSSynchronizer", "AllReduceSynchronizer"}
            /\ l.synchronizer = "PSSynchronizer" =>
                 /\ l.reduction_destination \in SeqToSet(CpuDevices(call[t].resource_spec))
                 /\ \E e \in SeqToSet(call[t].ps_shards) :
                       e.name = l.var_name /\ e.dest = l.reduction_destination
            /\ l.synchronizer = "AllReduceSynchronizer" =>
                 \E e \in SeqToSet(call[t].ar_shards) :
                       e.name = l.var_name /\ e.group = l.group

\* C2 witness: a returned document with a PS record and an AllReduce record
C2_Witness ==
    \E t \in Threads :
        /\ Returned(t)
        /\ \E l \in SeqToSet(Leaves(Document(t))) :
              l.synchronizer = "PSSynchronizer" /\ l.reduction_destination # ""
        /\ \E l \in SeqToSet(Leaves(Document(t))) :
              l.synchronizer = "AllReduceSynchronizer"

\* the grouping stage of the call of thread t has assigned groups
Grouped(t) == call[t].pc \in {"reset", "returned"} /\ call[t].ar_shards # <<>>

\* C3 as claimed: after the grouping stage, under the schemes none, random and
\* by_chunk, every group id g satisfies 0 <= g < R, R the resolved group count or
\* chunk size
C3_GroupBelowResolved ==
    \A t \in Threads :
        Grouped(t) /\ heuristics.merge_scheme \in {PyNone, "random", "by_chunk"} =>
            \A e \in SeqToSet(call[t].ar_shards) :
                0 <= e.group /\ e.group < call[t].num_group

\* C3 amended: under none and random 0 <= g < R for the sampled group count R; under
\* by_chunk R is the chunk size, the k-th record of the pool (k from 0) gets
\* g = k div R, and so 0 <= g <= (n - 1) div R for a pool of n records
C3_GroupRange ==
    \A t \in Threads : Grouped(t) =>
        LET n == Len(call[t].ar_shards)
            r == call[t].num_group
        IN  /\ r >= 1
            /\ heuristics.merge_scheme \in {PyNone, "random"} =>
                 /\ r <= n
                 /\ \A k \in 1..n : call[t].ar_shards[k].group \in 0..(r - 1)
            /\ heuristics.merge_scheme = "by_chunk" =>
                 \A k \in 1..n :
                    /\ call[t].ar_shards[k].group = (k - 1) \div r
                    /\ call[t].ar_shards[k].group \in 0..((n - 1) \div r)

\* C3 witness: under by_chunk a record got a group id that is not below the chunk
\* size, and under random two records were grouped
C3_Witness ==
    \E t \in Threads :
        /\ Grouped(t)
        /\ heuristics.merge_scheme = "by_chunk"
        /\ Len(call[t].ar_shards) >= 2
        /\ \E e \in SeqToSet(call[t].ar_shards) : e.group >= call[t].num_group

\* C4 as claimed: when space's maybe_partition has one boolean, the decision stage
\* returns that boolean, and the assembler branches on it: with [False] the
\* variable's node is an unpartitioned leaf record, with [True] it is partitioned
C4_SingletonDecides ==
    \A t \in Threads : Len(space.maybe_partition) = 1 =>
        \A k \in 1..Len(call[t].decisions) :
            LET d == call[t].decisions[k]
            IN  /\ d.exc = "" /\ d.tag = "bool" /\ d.b = space.maybe_partition[1]
                /\ call[t].exc = "" =>
                     /\ k <= Len(call[t].node_config)
                     /\ (call[t].node_config[k].partitioner # <<>>) = space.maybe_partition[1]

\* the variable of the decision stage gets as far as the byte-size comparison: two
\* sharding outcomes, no single-node rule, a legal axis
ReachesByteSize ==
    /\ Len(space.maybe_partition) = 2
    /\ ~(heuristics.enable_single_node_no_partition /\ stage.resource_spec.num_cpus <= 1)
    /\ LegalAxes(stage.var, space) # {}

\* C5 as claimed: for a variable that gets to the byte-size comparison, at or below
\* the lower bound the decision is False, at or above the upper bound (and above the
\* lower) it is True, both without a random draw; a random draw is made only
\* strictly between the bounds
C5_ByteSizeBounds ==
    stage.ran /\ ReachesByteSize =>
        LET lb == heuristics.maybe_partition_bounds[1]
            ub == heuristics.maybe_partition_bounds[2]
            size == VarByteSize(stage.var)
        IN  /\ size <= lb => stage.decision = Dec(FALSE, FALSE)
            /\ size > lb /\ size >= ub => stage.decision = Dec(TRUE, FALSE)
            /\ stage.decision.rand => lb < size /\ size < ub

\* the extent the claim gives shard i of an axis of extent e split in k
ClaimedExtent(e, k, i) == IF i < e % k THEN (e \div k) + 1 ELSE e \div k

\* C6: for an axis of extent E split into K shards, 1 <= K <= E, shard i has extent
\* floor(E/K)+1 if i < E mod K and floor(E/K) otherwise, the other axes keep the
\* parent's extents, the byte size of a shard is exactly the parent's byte size
\* times its extent over E, and over all K shards the extents sum to E and the byte
\* sizes to the parent's byte size
C6_ShardShapes ==
    LET e == part.shape[part.axis + 1]
        n == Len(part.done)
    IN  part.num_shards > 0 =>
        /\ \A i \in 0..(n - 1) :
             LET p == part.done[i + 1]
             IN  /\ Len(p.shape) = Len(part.shape)
                 /\ p.shape[part.axis + 1] = ClaimedExtent(e, part.num_shards, i)
                 /\ \A j \in 1..Len(part.shape) :
                       j # part.axis + 1 => p.shape[j] = part.shape[j]
                 /\ p.byte_size.err = 0
                 /\ p.byte_size.den = e
                 /\ p.byte_size.num = part.bytes * ClaimedExtent(e, part.num_shards, i)
        /\ n = part.num_shards =>
             /\ SumSeq([i \in 1..n |-> part.done[i].shape[part.axis + 1]]) = e
             /\ SumSeq([i \in 1..n |-> part.done[i].byte_size.num]) = part.bytes * e

\* C6 witness: all the shards of an uneven split of the second axis are computed
C6_Witness ==
    /\ part.num_shards >= 2
    /\ Len(part.done) = part.num_shards
    /\ part.axis = 1
    /\ part.shape[part.axis + 1] % part.num_shards # 0
    /\ part.done[1].shape[part.axis + 1] > part.done[part.num_shards].shape[part.axis + 1]

KnownLoadBalancers == {PyNone, "greedy", "sorted_greedy", "christy", "sorted_christy"}
KnownMergeSchemes == {PyNone, "random", "by_chunk", "christy", "ordered_balanced"}

\* C8 as claimed: with a ps_load_balancer or a merge_scheme that is not one of the
\* known names, no build call returns a document
C8_UnknownHeuristicRaises ==
    (heuristics.ps_load_balancer \notin KnownLoadBalancers
        \/ heuristics.merge_scheme \notin KnownMergeSchemes) =>
            \A t \in Threads : ~Returned(t)

\* C9 as claimed: when a call runs its placement and grouping stage, self.helpers
\* holds, for every record the call made, the view the call wrote
C9_StageSeesOwnViews == \A t \in Threads : call[t].lost = {}

\* no thread is inside build
BetweenCalls == \A t \in Threads : call[t].pc \in {"idle", "returned", "raised"}

\* C10 as claimed: between build calls, whether they returned or raised,
\* self.helpers is empty
C10_HelpersEmptyBetweenCalls == BetweenCalls => helpers = <<>>

\* C11: when the cluster has no more gpus than cpus, every PS leaf record of every
\* returned document has local_replication false, whatever the local_replication
\* list of space holds (also [True], also an empty list, so nothing is drawn); with
\* more gpus than cpus the flag is a member of that list.  The same holds of every
\* PS record the synchronizer stage fills, a shard's included
C11_LocalReplicationForcedFalse ==
    /\ \A t \in Threads : Returned(t) =>
         \A l \in SeqToSet(Leaves(Document(t))) :
            l.synchronizer = "PSSynchronizer" =>
               IF call[t].resource_spec.num_gpus <= call[t].resource_spec.num_cpus
               THEN l.local_replication = FALSE
               ELSE l.local_replication \in SeqToSet(space.local_replication)
    /\ ncalls = 0 =>
         \A rs \in ReplResourceSpecs :
            LET drawn == SampleIfLocalReplication(space.local_replication, rs)
                filled == FillSynchronizer("w:0", "PS", rs, space)
            IN  IF rs.num_gpus <= rs.num_cpus
                THEN /\ drawn = {FALSE}
                     /\ \A o \in filled : o.exc = "" /\ o.leaf.local_replication = FALSE
                ELSE /\ drawn = SeqToSet(space.local_replication)
                     /\ \A o \in filled :
                           IF space.local_replication = <<>> THEN o.exc # ""
                           ELSE /\ o.exc = ""
                                /\ o.leaf.local_replication \in
                                      SeqToSet(space.local_replication)

\* C11 witness: a returned document of a cluster with one gpu and one cpu holds a
\* PS record with local_replication false while space offers only True
C11_Witness ==
    \E t \in Threads :
        /\ Returned(t)
        /\ call[t].resource_spec.num_gpus = call[t].resource_spec.num_cpus
        /\ space.local_replication = <<TRUE>>
        /\ \E l \in SeqToSet(Leaves(Document(t))) :
              l.synchronizer = "PSSynchronizer" /\ l.local_replication = FALSE

\* a bound of num_partition_bounds as the claim resolves it: the string 'num_nodes'
\* stands for the number of cpus of the cluster
ClaimedBound(b, rs) == IF b.isint THEN b.n ELSE rs.num_cpus

\* the shard counts the claim allows on an axis: from max(2, L) to min(extent, U)
ClaimedShardCounts(var, axis, rs, hr) ==
    { n \in 1..VarShape(var)[axis + 1] :
        /\ n >= Max(2, ClaimedBound(hr.num_partition_bounds[1], rs))
        /\ n <= ClaimedBound(hr.num_partition_bounds[2], rs) }

\* C12 as claimed: run on a variable that has a legal axis on which the bounds
\* leave a shard count, sample_partition_config returns a PartitionerConfig with N
\* shards on one legal axis and 1 on every other, max(2, L) <= N <= min(extent, U),
\* the bound 'num_nodes' standing for the number of cpus, below as well as above
C12_ShardCountInBounds ==
    (/\ stage.ran
     /\ \E a \in LegalAxes(stage.var, space) :
           ClaimedShardCounts(stage.var, a, stage.resource_spec, heuristics) # {})
    => /\ stage.config.exc = ""
       /\ stage.config.axis \in LegalAxes(stage.var, space)
       /\ stage.config.num_shards \in
             ClaimedShardCounts(stage.var, stage.config.axis, stage.resource_spec,
                                heuristics)
       /\ stage.config.partition_list =
             [k \in 1..Len(VarShape(stage.var)) |->
                 IF k = stage.config.axis + 1 THEN stage.config.num_shards ELSE 1]

\* C13 as claimed: in every build call a variable without a legal partition axis
\* (a scalar, or one whose axes space's partitionable_axis all excludes) gets the
\* decision False, so sample_partition_config is not run on it, and its node is an
\* unpartitioned leaf record; also when space's maybe_partition is [True]
C13_NoAxisNeverPartitioned ==
    \A t \in Threads : \A k \in 1..Len(call[t].decisions) :
        LegalAxes(call[t].graph_item[k], space) = {} =>
            LET d == call[t].decisions[k]
            IN  /\ d.exc = "" /\ ~Truthy(d)
                /\ call[t].exc = "" =>
                     /\ k <= Len(call[t].node_config)
                     /\ call[t].node_config[k].partitioner = <<>>

====
